---- MODULE Spec2Model ----
(***************************************************************************)
(* Model of ip/reservedip: the two classifiers IsReservedIPv4 and          *)
(* IsReservedIPv6, their constant tables, and callers that invoke them     *)
(* one loop iteration at a time, alone or from several threads.            *)
(*                                                                         *)
(* A uint32_t is the pair <<hi, lo>> of its 16-bit halves: the 32-bit      *)
(* values do not fit the model checker's integers, and unsigned comparison *)
(* of two values is the lexicographic comparison of the pairs.  A C array  *)
(* is a function on 0..n-1, so the indices are the source's.               *)
(***************************************************************************)
EXTENDS Integers, Sequences, FiniteSets, TLC

\* ------------------------------------------------------------------ bounds
\* Number of caller threads of ConcSpec.
NThreads == 2
\* How far around each table boundary the inputs are drawn.
Radius == 1
\* Saturation point of the probe counter (instrumentation only).
ProbeCap == 6

Threads == 1..NThreads

\* ---------------------------------------------------------------- uint32_t
W(hi, lo) == <<hi, lo>>

Lt(a, b) == a[1] < b[1] \/ (a[1] = b[1] /\ a[2] < b[2])

Le(a, b) == a = b \/ Lt(a, b)

\* a + 1 and a - 1 in uint32_t arithmetic (wrapping at 2^32).
Inc(a) ==
  IF a[2] < 65535 THEN W(a[1], a[2] + 1)
  ELSE W((a[1] + 1) % 65536, 0)

Dec(a) ==
  IF a[2] > 0 THEN W(a[1], a[2] - 1)
  ELSE W((a[1] + 65535) % 65536, 65535)

RECURSIVE Plus(_, _)
Plus(a, n) == IF n = 0 THEN a ELSE Plus(Inc(a), n - 1)

RECURSIVE Minus(_, _)
Minus(a, n) == IF n = 0 THEN a ELSE Minus(Dec(a), n - 1)

\* ------------------------------------------------------------------ arrays
ZeroBased(s) == [k \in 0..(Len(s) - 1) |-> s[k + 1]]

\* A value read outside an array is whatever the memory holds there.
JunkBytes == {0, 255}

ReadByte(a, k, junk) == IF k \in DOMAIN a THEN a[k] ELSE junk

\* x & y on uint8_t.
RECURSIVE BitAndN(_, _, _)
BitAndN(x, y, n) ==
  IF n = 0 THEN 0
  ELSE 2 * BitAndN(x \div 2, y \div 2, n - 1) + ((x % 2) * (y % 2))

BitAnd(x, y) == BitAndN(x, y, 8)

\* ------------------------------------------------------------------ tables
IPv4Range(s, e) == [start |-> s, end |-> e]

\* Mutant: 198.51.100.0/24 listed before 198.18.0.0/15.
IPv4Table_Unsorted ==
  ZeroBased(<<
    IPv4Range(W(\h0000, \h0000), W(\h00FF, \hFFFF)),
    IPv4Range(W(\h6440, \h0000), W(\h647F, \hFFFF)),
    IPv4Range(W(\hC000, \h0000), W(\hC000, \h0007)),
    IPv4Range(W(\hC000, \h0200), W(\hC000, \h02FF)),
    IPv4Range(W(\hC058, \h6300), W(\hC058, \h63FF)),
    IPv4Range(W(\hC633, \h6400), W(\hC633, \h64FF)),
    IPv4Range(W(\hC612, \h0000), W(\hC613, \hFFFF)),
    IPv4Range(W(\hCB00, \h7100), W(\hCB00, \h71FF)),
    IPv4Range(W(\hE000, \h0000), W(\hFFFF, \hFFFF))
  >>)

\* Mutant: the private-use block 10.0.0.0/8 is listed as well.
IPv4Table_WithPrivate ==
  ZeroBased(<<
    IPv4Range(W(\h0000, \h0000), W(\h00FF, \hFFFF)),
    IPv4Range(W(\h0A00, \h0000), W(\h0AFF, \hFFFF)),
    IPv4Range(W(\h6440, \h0000), W(\h647F, \hFFFF)),
    IPv4Range(W(\hC000, \h0000), W(\hC000, \h0007)),
    IPv4Range(W(\hC000, \h0200), W(\hC000, \h02FF)),
    IPv4Range(W(\hC058, \h6300), W(\hC058, \h63FF)),
    IPv4Range(W(\hC612, \h0000), W(\hC613, \hFFFF)),
    IPv4Range(W(\hC633, \h6400), W(\hC633, \h64FF)),
    IPv4Range(W(\hCB00, \h7100), W(\hCB00, \h71FF)),
    IPv4Range(W(\hE000, \h0000), W(\hFFFF, \hFFFF))
  >>)

IPv4Table ==
  ZeroBased(<<
    IPv4Range(W(\h0000, \h0000), W(\h00FF, \hFFFF)),
    IPv4Range(W(\h6440, \h0000), W(\h647F, \hFFFF)),
    IPv4Range(W(\hC000, \h0000), W(\hC000, \h0007)),
    IPv4Range(W(\hC000, \h0200), W(\hC000, \h02FF)),
    IPv4Range(W(\hC058, \h6300), W(\hC058, \h63FF)),
    IPv4Range(W(\hC612, \h0000), W(\hC613, \hFFFF)),
    IPv4Range(W(\hC633, \h6400), W(\hC633, \h64FF)),
    IPv4Range(W(\hCB00, \h7100), W(\hCB00, \h71FF)),
    IPv4Range(W(\hE000, \h0000), W(\hFFFF, \hFFFF))
  >>)

IPv6Prefix(bytes, len) == [prefix |-> ZeroBased(bytes), prefix_len |-> len]

IPv6Table ==
  ZeroBased(<<
    IPv6Prefix(<<0,0,0,0,0,0,0,0,0,0,0,0,0,0,0,0>>, 128),
    IPv6Prefix(<<0,0,0,0,0,0,0,0,0,0,\hFF,\hFF,0,0,0,0>>, 96),
    IPv6Prefix(<<\h01,\h00,0,0,0,0,0,0,0,0,0,0,0,0,0,0>>, 64),
    IPv6Prefix(<<\h20,\h01,0,0,0,0,0,0,0,0,0,0,0,0,0,0>>, 32),
    IPv6Prefix(<<\h20,\h01,\h00,\h10,0,0,0,0,0,0,0,0,0,0,0,0>>, 28),
    IPv6Prefix(<<\h20,\h01,\h00,\h20,0,0,0,0,0,0,0,0,0,0,0,0>>, 28),
    IPv6Prefix(<<\h20,\h01,\h0d,\hb8,0,0,0,0,0,0,0,0,0,0,0,0>>, 32),
    IPv6Prefix(<<\hFF,0,0,0,0,0,0,0,0,0,0,0,0,0,0,0>>, 8)
  >>)

\* ------------------------------------------------------------------- state
VARIABLES
  ipv4_reserved_ranges,   \* the IPv4 table in memory
  ipv6_reserved_prefixes, \* the IPv6 table in memory
  little_endian,          \* byte order of the host
  pc,                     \* per thread: "idle", "v4_loop", "v6_entry", "v6_loop", "done"
  fn,                     \* per thread: the function of the current or last call
  ip_host,                \* per thread: argument of IsReservedIPv4
  wire,                   \* per thread: the network-order bytes ip_host was read from, if any
  ip16,                   \* per thread: argument of IsReservedIPv6, [null, mem]
  left, right, mid,       \* per thread: locals of IsReservedIPv4
  i,                      \* per thread: loop index of IsReservedIPv6
  ret,                    \* per thread: the value returned
  probes,                 \* per thread: table entries read by the call (saturating)
  tblIdx,                 \* per thread: table indices read by the call
  ipIdx,                  \* per thread: indices of ip16 read by the call
  pfxIdx                  \* per thread: indices of prefix->prefix read by the call

tables == <<ipv4_reserved_ranges, ipv6_reserved_prefixes, little_endian>>

frame4 == <<ip_host, wire, left, right, mid>>

frame6 == <<ip16, i, ipIdx, pfxIdx>>

vars == <<ipv4_reserved_ranges, ipv6_reserved_prefixes, little_endian, pc, fn,
          ip_host, wire, ip16, left, right, mid, i, ret, probes, tblIdx, ipIdx,
          pfxIdx>>

ipv4_ranges_count == Cardinality(DOMAIN ipv4_reserved_ranges)

ipv6_prefixes_count == Cardinality(DOMAIN ipv6_reserved_prefixes)

ZeroAddr == [k \in 0..15 |-> 0]

NullPtr == [null |-> TRUE, mem |-> ZeroAddr]

Ptr(bytes) == [null |-> FALSE, mem |-> bytes]

NoWire == [used |-> FALSE, bytes |-> <<0, 0, 0, 0>>]

Init ==
  /\ ipv4_reserved_ranges = IPv4Table
  /\ ipv6_reserved_prefixes = IPv6Table
  /\ little_endian \in BOOLEAN
  /\ pc = [t \in Threads |-> "idle"]
  /\ fn = [t \in Threads |-> "none"]
  /\ ip_host = [t \in Threads |-> W(0, 0)]
  /\ wire = [t \in Threads |-> NoWire]
  /\ ip16 = [t \in Threads |-> NullPtr]
  /\ left = [t \in Threads |-> 0]
  /\ right = [t \in Threads |-> 0]
  /\ mid = [t \in Threads |-> 0]
  /\ i = [t \in Threads |-> 0]
  /\ ret = [t \in Threads |-> 0]
  /\ probes = [t \in Threads |-> 0]
  /\ tblIdx = [t \in Threads |-> {}]
  /\ ipIdx = [t \in Threads |-> {}]
  /\ pfxIdx = [t \in Threads |-> {}]

\* --------------------------------------------------------- IsReservedIPv4
\* What a read of ipv4_reserved_ranges[k] outside the table may yield.
JunkRanges ==
  {IPv4Range(W(0, 0), W(65535, 65535)), IPv4Range(W(65535, 65535), W(0, 0))}

RangeAt(table, k, junk) == IF k \in DOMAIN table THEN table[k] ELSE junk

\* Mutant: the upper bound of a range is excluded (ip_host < range->end).
Probe_ExclusiveEnd(ip, l, r, table, junk) ==
  LET m == (l + r) \div 2
      range == RangeAt(table, m, junk)
  IN  IF Le(range.start, ip) /\ Lt(ip, range.end)
        THEN [mid |-> m, found |-> TRUE, left |-> l, right |-> r]
      ELSE IF Lt(ip, range.start)
        THEN [mid |-> m, found |-> FALSE, left |-> l, right |-> m - 1]
      ELSE [mid |-> m, found |-> FALSE, left |-> m + 1, right |-> r]

\* Mutant: the right half keeps the probed entry (left = mid).
Probe_NoAdvance(ip, l, r, table, junk) ==
  LET m == (l + r) \div 2
      range == RangeAt(table, m, junk)
  IN  IF Le(range.start, ip) /\ Le(ip, range.end)
        THEN [mid |-> m, found |-> TRUE, left |-> l, right |-> r]
      ELSE IF Lt(ip, range.start)
        THEN [mid |-> m, found |-> FALSE, left |-> l, right |-> m - 1]
      ELSE [mid |-> m, found |-> FALSE, left |-> m, right |-> r]

\* One iteration of the while loop, entered with l <= r: the probed index,
\* whether the iteration returned, and left and right after it.
Probe(ip, l, r, table, junk) ==
  LET m == (l + r) \div 2
      range == RangeAt(table, m, junk)
  IN  IF Le(range.start, ip) /\ Le(ip, range.end)
        THEN [mid |-> m, found |-> TRUE, left |-> l, right |-> r]
      ELSE IF Lt(ip, range.start)
        THEN [mid |-> m, found |-> FALSE, left |-> l, right |-> m - 1]
      ELSE [mid |-> m, found |-> FALSE, left |-> m + 1, right |-> r]

\* The caller's read of four network-order bytes as a native uint32_t.
ReadNative(b, le) ==
  IF le THEN W(b[4] * 256 + b[3], b[2] * 256 + b[1])
  ELSE W(b[1] * 256 + b[2], b[3] * 256 + b[4])

Enter4(t, a, w) ==
  /\ pc[t] \in {"idle", "done"}
  /\ pc' = [pc EXCEPT ![t] = "v4_loop"]
  /\ fn' = [fn EXCEPT ![t] = "IsReservedIPv4"]
  /\ ip_host' = [ip_host EXCEPT ![t] = a]
  /\ wire' = [wire EXCEPT ![t] = w]
  /\ left' = [left EXCEPT ![t] = 0]
  /\ right' = [right EXCEPT ![t] = ipv4_ranges_count - 1]
  /\ mid' = [mid EXCEPT ![t] = 0]
  /\ ret' = [ret EXCEPT ![t] = 0]
  /\ probes' = [probes EXCEPT ![t] = 0]
  /\ tblIdx' = [tblIdx EXCEPT ![t] = {}]
  /\ ip16' = [ip16 EXCEPT ![t] = NullPtr]
  /\ i' = [i EXCEPT ![t] = 0]
  /\ ipIdx' = [ipIdx EXCEPT ![t] = {}]
  /\ pfxIdx' = [pfxIdx EXCEPT ![t] = {}]
  /\ UNCHANGED tables

\* A caller passes a host-order value.
CallIsReservedIPv4(t, a) == Enter4(t, a, NoWire)

\* A caller passes the four bytes of a network-order address read as a
\* native integer, as the header's "big-endian uint32 format" has it.
CallIsReservedIPv4Wire(t, b) ==
  Enter4(t, ReadNative(b, little_endian), [used |-> TRUE, bytes |-> b])

IsReservedIPv4_Probe(t) ==
  /\ pc[t] = "v4_loop"
  /\ left[t] <= right[t]
  /\ \E junk \in JunkRanges :
       LET p == Probe(ip_host[t], left[t], right[t], ipv4_reserved_ranges, junk)
       IN  /\ mid' = [mid EXCEPT ![t] = p.mid]
           /\ tblIdx' = [tblIdx EXCEPT ![t] = @ \cup {p.mid}]
           /\ probes' = [probes EXCEPT ![t] = IF @ < ProbeCap THEN @ + 1 ELSE @]
           /\ left' = [left EXCEPT ![t] = p.left]
           /\ right' = [right EXCEPT ![t] = p.right]
           /\ IF p.found
                THEN /\ ret' = [ret EXCEPT ![t] = 1]
                     /\ pc' = [pc EXCEPT ![t] = "done"]
                ELSE UNCHANGED <<ret, pc>>
  /\ UNCHANGED <<tables, fn, ip_host, wire, frame6>>

IsReservedIPv4_NotFound(t) ==
  /\ pc[t] = "v4_loop"
  /\ ~(left[t] <= right[t])
  /\ ret' = [ret EXCEPT ![t] = 0]
  /\ pc' = [pc EXCEPT ![t] = "done"]
  /\ UNCHANGED <<tables, fn, frame4, frame6, probes, tblIdx>>

\* --------------------------------------------------------- IsReservedIPv6
\* *(p + k) for the caller's pointer p.
Deref(p, k, junk) == IF p.null THEN junk ELSE ReadByte(p.mem, k, junk)

PrefixAt(table, k, ja, jb) ==
  IF k \in DOMAIN table THEN table[k]
  ELSE [prefix |-> [b \in 0..15 |-> ja], prefix_len |-> jb]

\* The for loop over the complete bytes: the index at which it returned 0,
\* or bytes_to_check when it ran to its end.
RECURSIVE CompleteBytes(_, _, _, _, _, _)
CompleteBytes(ip, prefix, k, bytes_to_check, ja, jb) ==
  IF k < bytes_to_check
    THEN IF Deref(ip, k, ja) # ReadByte(prefix.prefix, k, jb)
           THEN k
           ELSE CompleteBytes(ip, prefix, k + 1, bytes_to_check, ja, jb)
    ELSE bytes_to_check

\* Mutant: the bits after the last complete byte are not compared.
ipv6_matches_prefix_BytesOnly(ip, prefix, ja, jb) ==
  LET bytes_to_check == prefix.prefix_len \div 8
      stop == CompleteBytes(ip, prefix, 0, bytes_to_check, ja, jb)
  IN  IF stop < bytes_to_check
        THEN [ret |-> 0, read |-> 0..stop]
        ELSE [ret |-> 1, read |-> 0..(bytes_to_check - 1)]

\* Mutant: the mask keeps the low bits (0xFF >> (8 - remaining_bits)).
ipv6_matches_prefix_LowMask(ip, prefix, ja, jb) ==
  LET bytes_to_check == prefix.prefix_len \div 8
      remaining_bits == prefix.prefix_len % 8
      stop == CompleteBytes(ip, prefix, 0, bytes_to_check, ja, jb)
  IN  IF stop < bytes_to_check
        THEN [ret |-> 0, read |-> 0..stop]
      ELSE IF remaining_bits > 0
        THEN LET mask == 255 \div 2^(8 - remaining_bits)
             IN  IF BitAnd(Deref(ip, bytes_to_check, ja), mask)
                      # BitAnd(ReadByte(prefix.prefix, bytes_to_check, jb), mask)
                   THEN [ret |-> 0, read |-> 0..bytes_to_check]
                   ELSE [ret |-> 1, read |-> 0..bytes_to_check]
      ELSE [ret |-> 1, read |-> 0..(bytes_to_check - 1)]

\* Mutant: the partial byte is compared whenever remaining_bits >= 0.
ipv6_matches_prefix_AlwaysPartial(ip, prefix, ja, jb) ==
  LET bytes_to_check == prefix.prefix_len \div 8
      remaining_bits == prefix.prefix_len % 8
      stop == CompleteBytes(ip, prefix, 0, bytes_to_check, ja, jb)
  IN  IF stop < bytes_to_check
        THEN [ret |-> 0, read |-> 0..stop]
      ELSE IF remaining_bits >= 0
        THEN LET mask == (255 * 2^(8 - remaining_bits)) % 256
             IN  IF BitAnd(Deref(ip, bytes_to_check, ja), mask)
                      # BitAnd(ReadByte(prefix.prefix, bytes_to_check, jb), mask)
                   THEN [ret |-> 0, read |-> 0..bytes_to_check]
                   ELSE [ret |-> 1, read |-> 0..bytes_to_check]
      ELSE [ret |-> 1, read |-> 0..(bytes_to_check - 1)]

\* ret is the value returned, read the indices of ip[] and prefix->prefix[]
\* that were read on the way.
ipv6_matches_prefix(ip, prefix, ja, jb) ==
  LET bytes_to_check == prefix.prefix_len \div 8
      remaining_bits == prefix.prefix_len % 8
      stop == CompleteBytes(ip, prefix, 0, bytes_to_check, ja, jb)
  IN  IF stop < bytes_to_check
        THEN [ret |-> 0, read |-> 0..stop]
      ELSE IF remaining_bits > 0
        THEN LET mask == (255 * 2^(8 - remaining_bits)) % 256
             IN  IF BitAnd(Deref(ip, bytes_to_check, ja), mask)
                      # BitAnd(ReadByte(prefix.prefix, bytes_to_check, jb), mask)
                   THEN [ret |-> 0, read |-> 0..bytes_to_check]
                   ELSE [ret |-> 1, read |-> 0..bytes_to_check]
      ELSE [ret |-> 1, read |-> 0..(bytes_to_check - 1)]

CallIsReservedIPv6(t, p) ==
  /\ pc[t] \in {"idle", "done"}
  /\ pc' = [pc EXCEPT ![t] = "v6_entry"]
  /\ fn' = [fn EXCEPT ![t] = "IsReservedIPv6"]
  /\ ip16' = [ip16 EXCEPT ![t] = p]
  /\ i' = [i EXCEPT ![t] = 0]
  /\ ret' = [ret EXCEPT ![t] = 0]
  /\ probes' = [probes EXCEPT ![t] = 0]
  /\ tblIdx' = [tblIdx EXCEPT ![t] = {}]
  /\ ipIdx' = [ipIdx EXCEPT ![t] = {}]
  /\ pfxIdx' = [pfxIdx EXCEPT ![t] = {}]
  /\ ip_host' = [ip_host EXCEPT ![t] = W(0, 0)]
  /\ wire' = [wire EXCEPT ![t] = NoWire]
  /\ left' = [left EXCEPT ![t] = 0]
  /\ right' = [right EXCEPT ![t] = 0]
  /\ mid' = [mid EXCEPT ![t] = 0]
  /\ UNCHANGED tables

\* Mutant: the null check is missing.
IsReservedIPv6_Entry_NoNullCheck(t) ==
  /\ pc[t] = "v6_entry"
  /\ pc' = [pc EXCEPT ![t] = "v6_loop"]
  /\ UNCHANGED <<tables, fn, frame4, frame6, probes, tblIdx, ret>>

\* if (ip16 == nullptr) return 0; otherwise the scan starts at i = 0.
IsReservedIPv6_Entry(t) ==
  /\ pc[t] = "v6_entry"
  /\ IF ip16[t].null
       THEN /\ ret' = [ret EXCEPT ![t] = 0]
            /\ pc' = [pc EXCEPT ![t] = "done"]
       ELSE /\ pc' = [pc EXCEPT ![t] = "v6_loop"]
            /\ UNCHANGED ret
  /\ UNCHANGED <<tables, fn, frame4, frame6, probes, tblIdx>>

\* Mutant: the partial byte of the caller's buffer is masked in place
\* before it is compared.
IsReservedIPv6_Match_InPlace(t) ==
  /\ pc[t] = "v6_loop"
  /\ i[t] < ipv6_prefixes_count
  /\ \E ja \in JunkBytes, jb \in JunkBytes :
       LET prefix == PrefixAt(ipv6_reserved_prefixes, i[t], ja, jb)
           m == ipv6_matches_prefix(ip16[t], prefix, ja, jb)
           at == prefix.prefix_len \div 8
           mask == (255 * 2^(8 - (prefix.prefix_len % 8))) % 256
       IN  /\ tblIdx' = [tblIdx EXCEPT ![t] = @ \cup {i[t]}]
           /\ probes' = [probes EXCEPT ![t] = IF @ < ProbeCap THEN @ + 1 ELSE @]
           /\ ipIdx' = [ipIdx EXCEPT ![t] = @ \cup m.read]
           /\ pfxIdx' = [pfxIdx EXCEPT ![t] = @ \cup m.read]
           /\ ip16' = [ip16 EXCEPT ![t].mem =
                         IF at \in m.read /\ prefix.prefix_len % 8 > 0
                           THEN [@ EXCEPT ![at] = BitAnd(@, mask)]
                           ELSE @]
           /\ IF m.ret # 0
                THEN /\ ret' = [ret EXCEPT ![t] = 1]
                     /\ pc' = [pc EXCEPT ![t] = "done"]
                     /\ UNCHANGED i
                ELSE /\ i' = [i EXCEPT ![t] = @ + 1]
                     /\ UNCHANGED <<ret, pc>>
  /\ UNCHANGED <<tables, fn, frame4>>

IsReservedIPv6_Match(t) ==
  /\ pc[t] = "v6_loop"
  /\ i[t] < ipv6_prefixes_count
  /\ \E ja \in JunkBytes, jb \in JunkBytes :
       LET m == ipv6_matches_prefix(
                  ip16[t], PrefixAt(ipv6_reserved_prefixes, i[t], ja, jb), ja, jb)
       IN  /\ tblIdx' = [tblIdx EXCEPT ![t] = @ \cup {i[t]}]
           /\ probes' = [probes EXCEPT ![t] = IF @ < ProbeCap THEN @ + 1 ELSE @]
           /\ ipIdx' = [ipIdx EXCEPT ![t] = @ \cup m.read]
           /\ pfxIdx' = [pfxIdx EXCEPT ![t] = @ \cup m.read]
           /\ IF m.ret # 0
                THEN /\ ret' = [ret EXCEPT ![t] = 1]
                     /\ pc' = [pc EXCEPT ![t] = "done"]
                     /\ UNCHANGED i
                ELSE /\ i' = [i EXCEPT ![t] = @ + 1]
                     /\ UNCHANGED <<ret, pc>>
  /\ UNCHANGED <<tables, fn, frame4, ip16>>

IsReservedIPv6_NotFound(t) ==
  /\ pc[t] = "v6_loop"
  /\ ~(i[t] < ipv6_prefixes_count)
  /\ ret' = [ret EXCEPT ![t] = 0]
  /\ pc' = [pc EXCEPT ![t] = "done"]
  /\ UNCHANGED <<tables, fn, frame4, frame6, probes, tblIdx>>

\* ----------------------------------------------------------------- inputs
Around(a) == {Plus(a, d) : d \in 0..Radius} \cup {Minus(a, d) : d \in 0..Radius}

\* Both bounds of every table entry and their neighbours on either side.
BoundaryInputs4 ==
  UNION {Around(IPv4Table[k].start) \cup Around(IPv4Table[k].end) :
           k \in DOMAIN IPv4Table}

\* The blocks left to the standard address library: 10.0.0.0/8,
\* 127.0.0.0/8, 169.254.0.0/16, 172.16.0.0/12, 192.168.0.0/16.
StdlibRanges4 ==
  { IPv4Range(W(\h0A00, \h0000), W(\h0AFF, \hFFFF)),
    IPv4Range(W(\h7F00, \h0000), W(\h7FFF, \hFFFF)),
    IPv4Range(W(\hA9FE, \h0000), W(\hA9FE, \hFFFF)),
    IPv4Range(W(\hAC10, \h0000), W(\hAC1F, \hFFFF)),
    IPv4Range(W(\hC0A8, \h0000), W(\hC0A8, \hFFFF)) }

StdlibInputs4 ==
  UNION { {Plus(r.start, d) : d \in 0..Radius}
            \cup {Minus(r.end, d) : d \in 0..Radius}
            \cup {W((r.start[1] + r.end[1]) \div 2, \h8001)} :
          r \in StdlibRanges4 }

Inputs4 == BoundaryInputs4 \cup StdlibInputs4

ToBytes(a) == <<a[1] \div 256, a[1] % 256, a[2] \div 256, a[2] % 256>>

WireInputs == {ToBytes(a) : a \in Inputs4}

\* Bit p of a 16-byte address, p = 0 the most significant bit of byte 0.
Bit(a, p) == (a[p \div 8] \div 2^(7 - (p % 8))) % 2

FlipBit(a, p) ==
  [a EXCEPT ![p \div 8] =
     IF Bit(a, p) = 1 THEN @ - 2^(7 - (p % 8)) ELSE @ + 2^(7 - (p % 8))]

\* a with every bit from position n on set to 1.
FillOnes(a, n) ==
  [k \in 0..15 |->
     IF 8 * (k + 1) <= n THEN a[k]
     ELSE IF 8 * k >= n THEN 255
     ELSE LET low == 2^(8 - (n - 8 * k)) IN (a[k] \div low) * low + (low - 1)]

EdgeBits(len) == {p \in (len - 1 - Radius)..(len + Radius) : p >= 0 /\ p <= 127}

\* Every table prefix, with its trailing bits cleared and set, and with one
\* bit flipped just inside the prefix, just outside it, or at the very end.
PrefixInputs6 ==
  UNION { LET e == IPv6Table[k]
              bases == {e.prefix, FillOnes(e.prefix, e.prefix_len)}
          IN  bases \cup {FlipBit(b, p) : b \in bases,
                                        p \in EdgeBits(e.prefix_len) \cup {127}} :
          k \in DOMAIN IPv6Table }

\* 2001:00XY:: for every high nibble X, with the rest of the address
\* cleared or set.
NibbleInputs6 ==
  { [k \in 0..15 |->
       IF k = 0 THEN \h20
       ELSE IF k = 1 THEN \h01
       ELSE IF k = 2 THEN \h00
       ELSE IF k = 3 THEN 16 * h + l
       ELSE tail] :
    h \in 0..15, l \in {0, 15}, tail \in {0, 255} }

\* The prefixes left to the standard address library: ::1/128, fe80::/10,
\* fc00::/7.
StdlibPrefixes6 ==
  { IPv6Prefix(<<0,0,0,0,0,0,0,0,0,0,0,0,0,0,0,1>>, 128),
    IPv6Prefix(<<\hFE,\h80,0,0,0,0,0,0,0,0,0,0,0,0,0,0>>, 10),
    IPv6Prefix(<<\hFC,\h00,0,0,0,0,0,0,0,0,0,0,0,0,0,0>>, 7) }

StdlibInputs6 ==
  UNION { LET bases == {e.prefix, FillOnes(e.prefix, e.prefix_len)}
          IN  bases \cup {FlipBit(b, p) : b \in bases,
                            p \in {q \in e.prefix_len..(e.prefix_len + Radius) : q <= 127}} :
          e \in StdlibPrefixes6 }

Inputs6 ==
  {NullPtr} \cup {Ptr(a) : a \in PrefixInputs6 \cup NibbleInputs6 \cup StdlibInputs6}

\* The inputs of the concurrent callers: reserved and unreserved addresses
\* of each family (0.0.0.0, 1.0.0.0, 224.0.0.1; ::, 2001:3f:ffff:...:ffff)
\* and the null pointer.
ConcInputs4 == {W(\h0000, \h0000), W(\h0100, \h0000), W(\hE000, \h0001)}

ConcInputs6 ==
  {NullPtr, Ptr(ZeroAddr), Ptr(FillOnes(FlipBit(IPv6Table[5].prefix, 27), 28))}

\* ---------------------------------------------------------- specifications
Step(t) ==
  \/ IsReservedIPv4_Probe(t)
  \/ IsReservedIPv4_NotFound(t)
  \/ IsReservedIPv6_Entry(t)
  \/ IsReservedIPv6_Match(t)
  \/ IsReservedIPv6_NotFound(t)

\* One caller, every input.
Next ==
  \/ \E a \in Inputs4 : CallIsReservedIPv4(1, a)
  \/ \E b \in WireInputs : CallIsReservedIPv4Wire(1, b)
  \/ \E p \in Inputs6 : CallIsReservedIPv6(1, p)
  \/ Step(1)

Spec == Init /\ [][Next]_vars

\* A running call is scheduled until it returns.
LiveSpec == Spec /\ WF_vars(Step(1))

\* Several callers whose calls interleave.
ConcNext ==
  \E t \in Threads :
    \/ \E a \in ConcInputs4 : CallIsReservedIPv4(t, a)
    \/ \E p \in ConcInputs6 : CallIsReservedIPv6(t, p)
    \/ Step(t)

ConcSpec == Init /\ [][ConcNext]_vars

TypeOK ==
  /\ pc \in [Threads -> {"idle", "v4_loop", "v6_entry", "v6_loop", "done"}]
  /\ ret \in [Threads -> {0, 1}]

\* ------------------------------------------------------------- properties
Returned4(t) == pc[t] = "done" /\ fn[t] = "IsReservedIPv4"

Returned6(t) == pc[t] = "done" /\ fn[t] = "IsReservedIPv6"

InRange(a, r) == Le(r.start, a) /\ Le(a, r.end)

\* A plain linear scan of the IPv4 table.
InSomeRange(a) ==
  \E k \in DOMAIN ipv4_reserved_ranges : InRange(a, ipv4_reserved_ranges[k])

\* a lies strictly between one entry's end and the next entry's start.
InSomeGap(a) ==
  \E k \in DOMAIN ipv4_reserved_ranges :
    /\ (k + 1) \in DOMAIN ipv4_reserved_ranges
    /\ Lt(ipv4_reserved_ranges[k].end, a)
    /\ Lt(a, ipv4_reserved_ranges[k + 1].start)

\* The leading n bits of a and b are equal.
LeadingBitsEqual(a, b, n) == \A p \in 0..(n - 1) : Bit(a, p) = Bit(b, p)

MatchesSomePrefix(a) ==
  \E k \in DOMAIN ipv6_reserved_prefixes :
    LeadingBitsEqual(a, ipv6_reserved_prefixes[k].prefix,
                     ipv6_reserved_prefixes[k].prefix_len)

\* C1: IsReservedIPv4(a) returns 1 exactly when a lies within the inclusive
\* bounds of some table entry, and 0 for every a strictly between two
\* consecutive entries: the binary search agrees with a linear scan.
C1_AgreesWithLinearScan ==
  \A t \in Threads :
    Returned4(t) =>
      /\ ret[t] \in {0, 1}
      /\ (ret[t] = 1) <=> InSomeRange(ip_host[t])
      /\ InSomeGap(ip_host[t]) => ret[t] = 0

\* 0xDFFFFFFF, just below the last entry, was searched for and not found.
C1_Witness ==
  \E t \in Threads :
    Returned4(t) /\ ip_host[t] = W(\hDFFF, \hFFFF) /\ ret[t] = 0

\* C2: for a non-null address IsReservedIPv6 returns 1 exactly when some
\* table entry's leading prefix_len bits equal those of the address; a
\* return of 1 happens at an entry whose leading bits match, whatever the
\* bits after them are.
C2_PrefixMatch ==
  \A t \in Threads :
    (Returned6(t) /\ ~ip16[t].null) =>
      /\ (ret[t] = 1) <=> MatchesSomePrefix(ip16[t].mem)
      /\ ret[t] = 1 =>
           /\ i[t] \in DOMAIN ipv6_reserved_prefixes
           /\ LeadingBitsEqual(ip16[t].mem,
                               ipv6_reserved_prefixes[i[t]].prefix,
                               ipv6_reserved_prefixes[i[t]].prefix_len)

\* 2001:db8::1 was found reserved at the documentation prefix.
C2_Witness ==
  \E t \in Threads :
    /\ Returned6(t)
    /\ ip16[t] = Ptr(FlipBit(IPv6Table[6].prefix, 127))
    /\ ret[t] = 1
    /\ i[t] = 6

\* C3: a call of IsReservedIPv6 with a null address reads no table entry
\* and no byte of the address, never enters the scan, and returns 0.
C3_NullNotReserved ==
  \A t \in Threads :
    (fn[t] = "IsReservedIPv6" /\ ip16[t].null) =>
      /\ pc[t] \in {"v6_entry", "done"}
      /\ tblIdx[t] = {}
      /\ ipIdx[t] = {}
      /\ pfxIdx[t] = {}
      /\ pc[t] = "done" => ret[t] = 0

C3_Witness ==
  \E t \in Threads : Returned6(t) /\ ip16[t].null /\ ret[t] = 0

\* The address starts 20 01 00: its first 24 bits are those of 2001:0010::.
Starts200100(a) == a[0] = \h20 /\ a[1] = \h01 /\ a[2] = \h00

HighNibble(b) == b \div 16

\* C4 as stated: with the first 24 bits of 2001:0010::, the result is 1 when
\* the high nibble of byte 3 is 1 and 0 when it is anything else.
C4_Original ==
  \A t \in Threads :
    (Returned6(t) /\ ~ip16[t].null /\ Starts200100(ip16[t].mem)) =>
      IF HighNibble(ip16[t].mem[3]) = 1 THEN ret[t] = 1 ELSE ret[t] = 0

\* C4, amended: with the first 24 bits of 2001:0010::, the result is 1 when
\* the high nibble of byte 3 is 1; when it is anything else the result is 0
\* unless the address lies in another table prefix, that is unless the
\* nibble is 2 (2001:20::/28) or byte 3 is 0 (2001::/32), where it is 1.
C4_Nibble ==
  \A t \in Threads :
    (Returned6(t) /\ ~ip16[t].null /\ Starts200100(ip16[t].mem)) =>
      LET b3 == ip16[t].mem[3]
      IN  IF HighNibble(b3) \in {1, 2} \/ b3 = 0 THEN ret[t] = 1 ELSE ret[t] = 0

\* 2001:001f:ffff:...:ffff was found reserved at the 2001:10::/28 entry.
C4_Witness ==
  \E t \in Threads :
    /\ Returned6(t)
    /\ ip16[t] = Ptr(FillOnes(IPv6Table[4].prefix, 28))
    /\ ret[t] = 1
    /\ i[t] = 4

InStdlib4(a) == \E r \in StdlibRanges4 : InRange(a, r)

InStdlib6(a) ==
  \E e \in StdlibPrefixes6 : LeadingBitsEqual(a, e.prefix, e.prefix_len)

\* C5: IsReservedIPv4 returns 0 for every address of 127.0.0.0/8,
\* 169.254.0.0/16, 10.0.0.0/8, 172.16.0.0/12 and 192.168.0.0/16;
\* IsReservedIPv6 returns 0 for ::1 and every address of fe80::/10 and
\* fc00::/7.
C5_StdlibRangesNotReserved ==
  \A t \in Threads :
    /\ (Returned4(t) /\ InStdlib4(ip_host[t])) => ret[t] = 0
    /\ (Returned6(t) /\ ~ip16[t].null /\ InStdlib6(ip16[t].mem)) => ret[t] = 0

\* 10.255.255.255 was searched for and not found.
C5_Witness ==
  \E t \in Threads :
    Returned4(t) /\ ip_host[t] = W(\h0AFF, \hFFFF) /\ ret[t] = 0

\* C6: called with the native integer read from the network-order bytes
\* a,b,c,d, IsReservedIPv4 returns 1 exactly when a.b.c.d lies in a
\* reserved block, on a host of either byte order.
C6_BigEndianArgument ==
  \A t \in Threads :
    (Returned4(t) /\ wire[t].used) =>
      LET b == wire[t].bytes
      IN  (ret[t] = 1) <=> InSomeRange(W(b[1] * 256 + b[2], b[3] * 256 + b[4]))

SameCall(t, u) ==
  fn[t] = fn[u] /\ ip_host[t] = ip_host[u] /\ ip16[t] = ip16[u]

Running(t) == pc[t] \in {"v4_loop", "v6_entry", "v6_loop"}

\* C7: any two calls with the same input return the same value, which is 0
\* or 1, and no step of a call changes either table or the buffer the
\* caller passed.
C7_Pure ==
  /\ [](\A t \in Threads, u \in Threads :
          (pc[t] = "done" /\ pc[u] = "done" /\ SameCall(t, u)) =>
            (ret[t] = ret[u] /\ ret[t] \in {0, 1}))
  /\ [][/\ ipv4_reserved_ranges' = ipv4_reserved_ranges
        /\ ipv6_reserved_prefixes' = ipv6_reserved_prefixes
        /\ \A t \in Threads : Running(t) => ip16'[t] = ip16[t]]_vars

\* Two threads hold the result of the same IsReservedIPv6 call, which ran
\* through the whole table.
C7_Witness ==
  \E t \in Threads, u \in Threads :
    /\ t # u
    /\ Returned6(t) /\ Returned6(u)
    /\ ~ip16[t].null
    /\ SameCall(t, u)
    /\ ret[t] = 0 /\ ret[u] = 0
    /\ i[t] = ipv6_prefixes_count

RECURSIVE CeilLog2(_)
CeilLog2(n) == IF n <= 1 THEN 0 ELSE 1 + CeilLog2((n + 1) \div 2)

\* ceil(log2(N + 1)) for the N entries of the IPv4 table.
MaxProbes == CeilLog2(ipv4_ranges_count + 1)

\* C8: a call of IsReservedIPv4 never probes more than ceil(log2(N+1)) = 4
\* entries; an iteration returns 1 at once when the probed range contains
\* the address and otherwise strictly shrinks [left, right]; and every call
\* returns.
C8_Terminates ==
  /\ [](\A t \in Threads : fn[t] = "IsReservedIPv4" => probes[t] <= MaxProbes)
  /\ [][\A t \in Threads :
          (pc[t] = "v4_loop" /\ left[t] <= right[t] /\ probes'[t] # probes[t]) =>
            /\ mid'[t] \in DOMAIN ipv4_reserved_ranges
            /\ IF InRange(ip_host[t], ipv4_reserved_ranges[mid'[t]])
                 THEN pc'[t] = "done" /\ ret'[t] = 1
                 ELSE /\ pc'[t] = "v4_loop"
                      /\ right'[t] - left'[t] < right[t] - left[t]]_vars
  /\ \A t \in Threads : (pc[t] = "v4_loop") ~> (pc[t] = "done")

\* A search that needed the full four probes has returned.
C8_Witness ==
  \E t \in Threads : Returned4(t) /\ probes[t] = MaxProbes /\ ret[t] = 1

\* C9: every entry of the IPv4 table has start <= end, the entries are in
\* strictly ascending order of start, and each entry's end is strictly
\* below the next entry's start.
C9_TableSorted ==
  \A k \in DOMAIN ipv4_reserved_ranges :
    /\ Le(ipv4_reserved_ranges[k].start, ipv4_reserved_ranges[k].end)
    /\ (k + 1) \in DOMAIN ipv4_reserved_ranges =>
         /\ Lt(ipv4_reserved_ranges[k].start, ipv4_reserved_ranges[k + 1].start)
         /\ Lt(ipv4_reserved_ranges[k].end, ipv4_reserved_ranges[k + 1].start)

\* A search has probed the table up to its last entry and returned.
C9_Witness ==
  \E t \in Threads :
    Returned4(t) /\ (ipv4_ranges_count - 1) \in tblIdx[t] /\ ipv4_ranges_count = 9

\* C10: every table index read is inside its table, and every index of the
\* address and of a prefix read by ipv6_matches_prefix is in 0..15.
C10_InBounds ==
  \A t \in Threads :
    /\ fn[t] = "IsReservedIPv4" => tblIdx[t] \subseteq DOMAIN ipv4_reserved_ranges
    /\ fn[t] = "IsReservedIPv6" => tblIdx[t] \subseteq DOMAIN ipv6_reserved_prefixes
    /\ ipIdx[t] \subseteq 0..15
    /\ pfxIdx[t] \subseteq 0..15

\* The all-zero address matched ::/128 after all sixteen bytes were read.
C10_Witness ==
  \E t \in Threads :
    /\ Returned6(t)
    /\ ip16[t] = Ptr(ZeroAddr)
    /\ ret[t] = 1
    /\ ipIdx[t] = 0..15
    /\ pfxIdx[t] = 0..15

====
